---- MODULE Spec2Model ----
(***************************************************************************)
(* Recurrence-date engine of prefect.server.schemas.schedules              *)
(* (IntervalSchedule, CronSchedule, RRuleSchedule and their get_dates),    *)
(* as exercised by tests/server/schemas/test_schedules.py.                 *)
(*                                                                         *)
(* Time is counted in whole hours since 2017-12-01T00:00 UTC.  An aware    *)
(* datetime is a record [t |-> hours since the epoch in UTC, zone |-> the  *)
(* zone it is tagged with]; a naive datetime has zone "naive" and t holds  *)
(* its wall-clock fields.  Two zones are modelled: "UTC" and "NY"          *)
(* (America/New_York with its two transitions of 2018).                    *)
(*                                                                         *)
(* The module also holds the sqlite migration 4ad4658cbefe, which links    *)
(* the deployment table to concurrency_limit_v2: its upgrade and its       *)
(* downgrade, operation by operation.                                      *)
(***************************************************************************)
EXTENDS Integers, Sequences, FiniteSets, TLC

VARIABLES build, clock, sched, last, prev

\* given: the arguments of the last constructor call; error: the error it
\* raised, "" when it returned a schedule; native: the rule set the last
\* to_rrule() returned; tasks: the get_dates coroutines in flight.
VARIABLES given, error, native, tasks

\* The tables the migration 4ad4658cbefe works on, and migration: the revision
\* the database is at, the operation of a running migration that was applied
\* last, and the tables as they were when the upgrade began.
VARIABLES deployment, concurrency_limit_v2, migration

vars ==
    <<build, clock, sched, last, prev, given, error, native, tasks,
      deployment, concurrency_limit_v2, migration>>

\* ---------------------------------------------------------------- bounds

\* Scaled-down value of the iteration ceiling the tests import.
MAX_ITERATIONS == 6

\* Number of clock ticks that may pass during a run.
MaxTicks == 1

\* ------------------------------------------------------ temporal utilities

\* None: an argument or field that is not given.  Every reading of a clock is
\* positive.
Absent == -1

Min(a, b) == IF a <= b THEN a ELSE b

Max(a, b) == IF a >= b THEN a ELSE b

\* The quotient rounded up.
CeilDiv(a, b) == -((-a) \div b)

\* Days of 2018 before the first day of month m.
DaysBefore(m) == <<0, 31, 59, 90, 120, 151, 181, 212, 243, 273, 304, 334>>[m]

\* datetime(2018, m, d, h) as a count of hours.
Date2018(m, d, h) == (31 + DaysBefore(m) + d - 1) * 24 + h

\* datetime(2023, 6, d, h) as a count of hours (2020 is the one leap year between).
June2023(d, h) == (31 + 5 * 365 + 1 + 151 + d - 1) * 24 + h

HourOf(w) == w % 24

\* date.weekday(): Monday is 0; 2017-12-01 was a Friday.
Weekday(w) == ((w \div 24) + 4) % 7

\* "On 3/11/2018, at 2am, America/New_York switched clocks forward an hour."
ForwardTransition == Date2018(3, 11, 2) + 5

\* "11/4/2018, at 2am, America/New_York switched clocks back an hour."
BackwardTransition == Date2018(11, 4, 2) + 4

Zones == {"UTC", "NY"}

\* UTC offset of zone z at the instant t.
Offset(z, t) ==
    IF z = "NY"
    THEN (IF t >= ForwardTransition /\ t < BackwardTransition THEN -4 ELSE -5)
    ELSE 0

\* datetime.astimezone: the wall-clock reading of instant t in zone z.
ToLocal(z, t) == t + Offset(z, t)

FromLocalStandard(z, w) == IF z = "NY" THEN w + 5 ELSE w

\* A repeated reading read as the second of its two instants (fold = 1).
FromLocalSecond(z, w) ==
    IF z = "NY"
    THEN (IF ToLocal(z, w + 5) = w THEN w + 5
          ELSE IF ToLocal(z, w + 4) = w THEN w + 4 ELSE w + 5)
    ELSE w

\* The instant of wall-clock reading w in zone z.  A repeated reading is the
\* first of its two instants (fold = 0); a skipped reading is read with the
\* offset in force before the transition, which lands one hour later on the
\* local clock.
FromLocal(z, w) ==
    IF z = "NY"
    THEN (IF ToLocal(z, w + 4) = w THEN w + 4 ELSE w + 5)
    ELSE w

\* The instant a datetime argument denotes: a naive datetime is read as UTC.
InstantOf(d) == d.t

Aware(t, z) == [t |-> t, zone |-> z]

Naive(w) == [t |-> w, zone |-> "naive"]

NoDate == [t |-> Absent, zone |-> "naive"]

\* ------------------------------------------------------------ schedules

\* A schedule value.  Every kind carries the same fields; the fields of the
\* other kinds hold NoRuleSet, "" or Absent.
NoRuleSet ==
    [dtstart |-> Absent, rrules |-> {}, exrules |-> {}, rdates |-> {}, exdates |-> {}]

InferTimezoneVerbatim(tz, a) == IF tz = "" THEN a.zone ELSE tz

\* The timezone of an interval schedule: the one given, else the named zone of
\* the anchor; an anchor that carries a bare UTC offset gives "UTC".
InferTimezone(tz, a) ==
    IF tz # "" THEN tz
    ELSE IF a.zone \in Zones THEN a.zone ELSE "UTC"

\* IntervalSchedule(interval=..., anchor_date=..., timezone=...): the anchor
\* defaults to now; the timezone defaults to the anchor's zone, a naive anchor
\* being UTC.  The anchor keeps the zone it came with.
IntervalSchedule(interval, anchor, tz, now) ==
    LET a == IF anchor = NoDate THEN Aware(now, IF tz = "" THEN "UTC" ELSE tz)
             ELSE IF anchor.zone = "naive" THEN Aware(anchor.t, "UTC")
             ELSE anchor
    IN [kind |-> "interval", interval |-> interval, anchor_date |-> a,
        timezone |-> InferTimezone(tz, a),
        cron |-> "", rrule |-> NoRuleSet]

\* CronSchedule(cron=..., timezone=...): without a timezone the schedule is
\* evaluated in UTC.
CronSchedule(cron, tz) ==
    [kind |-> "cron", interval |-> Absent, anchor_date |-> NoDate,
     timezone |-> (IF tz = "" THEN "UTC" ELSE tz),
     cron |-> cron, rrule |-> NoRuleSet]

\* RRuleSchedule(rrule=..., timezone=...): the timezone defaults to UTC.
RRuleSchedule(rrule, tz) ==
    [kind |-> "rrule", interval |-> Absent, anchor_date |-> NoDate,
     timezone |-> (IF tz = "" THEN "UTC" ELSE tz),
     cron |-> "", rrule |-> rrule]

NoSchedule ==
    [kind |-> "none", interval |-> Absent, anchor_date |-> NoDate,
     timezone |-> "", cron |-> "", rrule |-> NoRuleSet]

\* A dateutil rruleset without components.  Every RRULE and EXRULE component
\* carries its own DTSTART, every RDATE and EXDATE is a datetime.
NoNative == [rrules |-> {}, exrules |-> {}, rdates |-> {}, exdates |-> {}]

\* ------------------------------------------------------------ cron engine

\* The hour field of the cron expressions the tests use; Absent stands for "*".
\* The minute field of each is 0, the remaining fields are "*".
CronHour(cron) ==
    CASE cron = "0 * * * *" -> Absent
      [] cron = "0 0 * * *" -> 0
      [] cron = "0 9 * * *" -> 9

\* The first wall-clock reading at or after w that matches the cron fields.
CronNextWall(cron, w) ==
    LET h == CronHour(cron)
    IN IF h = Absent THEN w ELSE w + ((h - w) % 24)

\* -------------------------------------------------------- interval engine

IntervalNextWallFloor(wa, interval, w) == wa + ((w - wa) \div interval) * interval

IntervalNextWallFromAnchorOn(wa, interval, w) ==
    wa + Max(0, CeilDiv(w - wa, interval)) * interval

\* The first reading anchor + k * interval (k any integer) at or after w.
IntervalNextWall(wa, interval, w) == wa + CeilDiv(w - wa, interval) * interval

\* ----------------------------------------------------------- rrule engine

\* The period of a FREQ value, in hours.
Period(freq) ==
    CASE freq = "HOURLY" -> 1
      [] freq = "DAILY" -> 24
      [] freq = "WEEKLY" -> 7 * 24

\* The first occurrence of a rule whose DTSTART reads dw: DTSTART itself, or
\* with BYDAY the first reading on that weekday at DTSTART's time of day.
RuleFirst(rule, dw) ==
    IF rule.byday = Absent THEN dw
    ELSE dw + 24 * ((rule.byday - Weekday(dw)) % 7)

\* COUNT left unread: the rule never runs out.
RuleNextWallUncounted(rule, dw, w) ==
    LET first == RuleFirst(rule, dw)
    IN first + Max(0, CeilDiv(w - first, Period(rule.freq))) * Period(rule.freq)

\* The first occurrence of the rule at or after w, Absent once COUNT is used up.
RuleNextWall(rule, dw, w) ==
    LET first == RuleFirst(rule, dw)
        i == Max(0, CeilDiv(w - first, Period(rule.freq)))
    IN IF rule.count # Absent /\ i >= rule.count THEN Absent
       ELSE first + i * Period(rule.freq)

\* w is an occurrence of the rule.
RuleHas(rule, dw, w) == RuleNextWall(rule, dw, w) = w

\* The DTSTART of rule text that has none is a fixed instant, never the clock:
\* the same text yields the same rule set whenever it is parsed.
DefaultDtstartNow(rs, now) == IF rs.dtstart = Absent THEN now ELSE rs.dtstart

DtstartOf(rs, now) == IF rs.dtstart = Absent THEN Date2018(1, 1, 0) ELSE rs.dtstart

\* The readings at or after w that the RRULE clauses and the RDATEs generate.
RRuleCandidates(rs, z, now, w) ==
    {RuleNextWall(r, DtstartOf(rs, now), w) : r \in rs.rrules}
        \cup {ToLocal(z, d) : d \in {x \in rs.rdates : ToLocal(z, x) >= w}}

SetMin(S) == CHOOSE x \in S : \A y \in S : x <= y

\* The first reading at or after w of the rule set, Absent when it has none.
RRuleNextWall(rs, z, now, w) ==
    LET c == RRuleCandidates(rs, z, now, w) \ {Absent}
    IN IF c = {} THEN Absent ELSE SetMin(c)

\* w is generated by an EXRULE clause or is an EXDATE.
RRuleExcluded(rs, z, now, w) ==
    \/ \E r \in rs.exrules : RuleHas(r, DtstartOf(rs, now), w)
    \/ \E d \in rs.exdates : ToLocal(z, d) = w

\* ----------------------------------------------------------------- facade

ArithZoneLocal(s, b) == s.timezone

ArithZoneUtc(s, b) == "UTC"

\* The zone whose wall clock the engine counts in.  Cron fields, rule sets and
\* intervals of whole days are counted on the schedule's local clock.  An
\* interval shorter than a day is counted in elapsed time on Python >= 3.13
\* and on the local clock on older interpreters.
ArithZone(s, b) ==
    IF s.kind = "interval" /\ s.interval % 24 # 0 /\ b = "py313"
    THEN "UTC"
    ELSE s.timezone

\* The first reading at or after w at which the schedule fires.
NextWall(s, z, now, w) ==
    CASE s.kind = "interval" ->
           IntervalNextWall(ToLocal(z, s.anchor_date.t), s.interval, w)
      [] s.kind = "cron" -> CronNextWall(s.cron, w)
      [] s.kind = "rrule" -> RRuleNextWall(s.rrule, z, now, w)

ExcludedNever(s, z, now, w) == FALSE

\* The reading is taken out by an EXRULE clause or an EXDATE of a rule set.
Excluded(s, z, now, w) ==
    s.kind = "rrule" /\ RRuleExcluded(s.rrule, z, now, w)

InSeq(x, q) == \E i \in 1..Len(q) : q[i] = x

DefaultNTwo(n, end) ==
    IF n # Absent THEN n
    ELSE IF end # Absent THEN MAX_ITERATIONS ELSE 2

\* n when given, else MAX_ITERATIONS with an end and 1 without.
DefaultN(n, end) ==
    IF n # Absent THEN n
    ELSE IF end # Absent THEN MAX_ITERATIONS ELSE 1

LimitUncapped(n, end) == DefaultN(n, end)

\* The number of dates a call may return.
Limit(n, end) == Min(DefaultN(n, end), MAX_ITERATIONS)

PastEndExclusive(d, end) == end # Absent /\ d >= end

PastEndNever(d, end) == FALSE

\* The end of the window is passed: a date on the end itself is still inside.
PastEnd(d, end) == end # Absent /\ d > end

IsNewAlways(d, acc) == TRUE

\* Two local readings around a transition can denote one instant; a date
\* already collected is not collected again.
IsNew(d, acc) == ~InSeq(d, acc)

NotBeforeAlways(d, start) == TRUE

\* The lower bound read as exclusive: "strictly after" the start.
NotBeforeStrict(d, start) == d > start

\* A date before the start is never returned.
NotBefore(d, start) == d >= start

\* The generation loop: take the readings of the schedule in ascending order,
\* localise each, stop past the end, keep what is new and not before the start,
\* stop once enough dates are collected.
RECURSIVE Generate(_, _, _, _, _, _, _, _)
Generate(s, z, now, w, start, end, limit, acc) ==
    LET cand == NextWall(s, z, now, w)
        d == FromLocal(z, cand)
        keep == NotBefore(d, start) /\ IsNew(d, acc) /\ ~Excluded(s, z, now, cand)
        acc2 == IF keep THEN Append(acc, d) ELSE acc
    IN IF cand = Absent THEN acc
       ELSE IF PastEnd(d, end) THEN acc
       ELSE IF Len(acc2) >= limit THEN acc2
       ELSE Generate(s, z, now, cand + 1, start, end, limit, acc2)

TagNaive(q, z) == [i \in 1..Len(q) |-> Naive(q[i])]

\* Every date is returned as an aware datetime in the schedule's timezone.
Tag(q, z) == [i \in 1..Len(q) |-> Aware(q[i], z)]

\* get_dates(n, start, end), now being the clock at the call.  A start that is
\* not given is the current instant.  The enumeration begins one hour before
\* the start's local reading, because a reading skipped by a transition lands
\* one hour later.
GetDates(s, b, now, n, start, end) ==
    LET z == ArithZone(s, b)
        startI == IF start = NoDate THEN now ELSE InstantOf(start)
        endI == IF end = NoDate THEN Absent ELSE InstantOf(end)
    IN Tag(Generate(s, z, now, ToLocal(z, startI) - 1, startI, endI,
                    Limit(n, endI), <<>>),
           s.timezone)

\* ----------------------------------------------------------------- inputs

\* The interpreters the tests distinguish (sys.version_info >= (3, 13) or not).
Builds == {"py313", "pre313"}

\* The clock reading at the start of a run.
ClockStart == Date2018(3, 10, 12)

\* datetime(2018, 3, 10, 23, tzinfo=ZoneInfo("America/New_York"))
ForwardStart == Aware(FromLocal("NY", Date2018(3, 10, 23)), "NY")

\* datetime(2018, 11, 3, 23, tzinfo=ZoneInfo("America/New_York"))
BackwardStart == Aware(FromLocal("NY", Date2018(11, 3, 23)), "NY")

\* datetime(2018, 3, 8, 9, tzinfo=ZoneInfo("America/New_York"))
ForwardAnchor == Aware(FromLocal("NY", Date2018(3, 8, 9)), "NY")

\* datetime(2018, 11, 1, 9, tzinfo=ZoneInfo("America/New_York"))
BackwardAnchor == Aware(FromLocal("NY", Date2018(11, 1, 9)), "NY")

\* datetime(2018, 1, 1, tzinfo=ZoneInfo("UTC"))
UtcStart == Aware(Date2018(1, 1, 0), "UTC")

\* datetime(2018, 1, 1, 6), a naive datetime
NaiveStart == Naive(Date2018(1, 1, 6))

\* datetime(2023, 6, 8, tzinfo=ZoneInfo("UTC")), a Thursday
ThursdayStart == Aware(June2023(8, 0), "UTC")

\* datetime(2018, 11, 3, 10, tzinfo=ZoneInfo("America/New_York")): the day
\* before the backward transition, an hour after BackwardAnchor's time of day.
DayBeforeBackward == Aware(FromLocal("NY", Date2018(11, 3, 10)), "NY")

Starts ==
    {NoDate, ForwardStart, BackwardStart, ForwardAnchor, BackwardAnchor,
     UtcStart, NaiveStart, ThursdayStart, DayBeforeBackward}

\* The distance from start to end, in hours: end = start, start + 2 days - 1
\* hour, start + 21 days; Absent for a call without end.
EndDeltas == {Absent, 0, 2 * 24 - 1, 21 * 24}

Ns == {Absent, 1, 3, 5, MAX_ITERATIONS + 2}

Intervals == {1, 2, 24}

Anchors == {NoDate, ForwardAnchor, BackwardAnchor, UtcStart}

TimezoneArgs == {"", "UTC", "NY"}

Crons == {"0 * * * *", "0 0 * * *", "0 9 * * *"}

Rule(freq, count, byday) == [freq |-> freq, count |-> count, byday |-> byday]

\* "FREQ=WEEKLY;INTERVAL=1;BYDAY=FR"
WeeklyOnFriday ==
    [NoRuleSet EXCEPT !.rrules = {Rule("WEEKLY", Absent, 4)}]

\* "DTSTART:20230608T130000\nFREQ=WEEKLY;INTERVAL=1;BYDAY=FR"
WeeklyAt1pmFridays ==
    [WeeklyOnFriday EXCEPT !.dtstart = June2023(8, 13)]

\* rrule.rrule(rrule.HOURLY, dtstart=datetime(2018, 3, 10, 23, ...))
HourlyForward ==
    [NoRuleSet EXCEPT !.dtstart = Date2018(3, 10, 23),
                      !.rrules = {Rule("HOURLY", Absent, Absent)}]

\* rrule.rrule(rrule.HOURLY, dtstart=datetime(2018, 11, 3, 23, ...))
HourlyBackward ==
    [HourlyForward EXCEPT !.dtstart = Date2018(11, 3, 23)]

\* Two RRULE clauses with COUNT on one DTSTART; both generate DTSTART itself.
TwoCounted ==
    [NoRuleSet EXCEPT !.dtstart = Date2018(1, 1, 0),
                      !.rrules = {Rule("DAILY", 2, Absent), Rule("HOURLY", 2, Absent)}]

\* A daily rule with an RDATE on one of its own dates and one off them, an
\* EXDATE on one of its dates and an EXRULE with COUNT.
DailyWithDates ==
    [dtstart |-> Date2018(1, 1, 0),
     rrules |-> {Rule("DAILY", Absent, Absent)},
     exrules |-> {Rule("WEEKLY", 1, 3)},
     rdates |-> {Date2018(1, 1, 0), Date2018(1, 1, 9)},
     exdates |-> {Date2018(1, 3, 0)}]

\* One daily rule with a COUNT below MAX_ITERATIONS.
DailyCounted ==
    [NoRuleSet EXCEPT !.dtstart = Date2018(1, 1, 0),
                      !.rrules = {Rule("DAILY", 4, Absent)}]

RuleSets ==
    {WeeklyOnFriday, WeeklyAt1pmFridays, HourlyForward, HourlyBackward,
     TwoCounted, DailyWithDates, DailyCounted}

\* The schedule values a run may construct when the clock reads now.
Schedules(now) ==
    {IntervalSchedule(i, a, tz, now) : i \in Intervals, a \in Anchors, tz \in TimezoneArgs}
        \cup {CronSchedule(c, tz) : c \in Crons, tz \in TimezoneArgs}
        \cup {RRuleSchedule(r, tz) : r \in RuleSets, tz \in TimezoneArgs}

\* -------------------------------------------------------- database tables

\* A column without a value.
NULL == "NULL"

\* revision and down_revision of the migration.
HeadRevision == "4ad4658cbefe"

BaseRevision == "7d6350aea855"

\* The deployment table at down_revision, without rows.  A table is its
\* columns, its named constraints and its rows; a row maps each column to a
\* value.  The column name stands for every column the migration does not name.
BaseTable == [columns |-> {"id", "name"}, constraints |-> {}, rows |-> {}]

\* The tables before any upgrade has begun.
NoSnapshot == [taken |-> FALSE, deployment |-> BaseTable, concurrency_limit_v2 |-> {}]

NoMigration == [revision |-> BaseRevision, step |-> "idle", before |-> NoSnapshot]

\* sa.Column("concurrency_limit_id", UUID(), nullable=True)
NewColumn == "concurrency_limit_id"

\* batch_op.create_foreign_key(batch_op.f(...), "concurrency_limit_v2",
\*     ["concurrency_limit_id"], ["id"], ondelete="SET NULL")
ForeignKey ==
    [name |-> "fk_deployment__concurrency_limit_id__concurrency_limit_v2",
     referent |-> "concurrency_limit_v2",
     local_cols |-> <<"concurrency_limit_id">>, remote_cols |-> <<"id">>,
     ondelete |-> "SET NULL"]

\* batch_op.add_column of a nullable column: every row reads NULL in it.
AddColumn(t, c) ==
    [t EXCEPT !.columns = @ \cup {c},
              !.rows = {[k \in (DOMAIN r) \cup {c} |-> IF k = c THEN NULL ELSE r[k]] :
                           r \in t.rows}]

CreateForeignKey(t, fk) == [t EXCEPT !.constraints = @ \cup {fk}]

\* batch_op.drop_constraint(name, type_="foreignkey")
DropConstraint(t, name) == [t EXCEPT !.constraints = {k \in @ : k.name # name}]

DropNothing(t, c) == t

\* batch_op.drop_column: the column leaves the table and every row.
DropColumn(t, c) ==
    [t EXCEPT !.columns = @ \ {c},
              !.rows = {[k \in (DOMAIN r) \ {c} |-> r[k]] : r \in t.rows}]

LimitNameBare(d) == d["id"]

\* 'deployment:' || deployment.id
LimitName(d) == "deployment:" \o d["id"]

\* SELECT ... FROM concurrency_limit_v2 l WHERE l.name = 'deployment:' || deployment.id
Matching(limits, d) == {l \in limits : l.name = LimitName(d)}

\* What the UPDATE can leave in the row d: untouched where no limit matches
\* (WHERE EXISTS), else the id of a matching limit.  The scalar subquery takes
\* the first row the engine finds, any of them when several match.
Updated(limits, d) ==
    IF Matching(limits, d) = {} THEN {d}
    ELSE {[d EXCEPT ![NewColumn] = l.id] : l \in Matching(limits, d)}

\* ---------------------------------------------------------- state machine

\* No constructor has been called.
NoGiven ==
    [ctor |-> "none", interval |-> Absent, anchor |-> NoDate, timezone |-> "",
     cron |-> "", rrule |-> NoRuleSet, object |-> NoNative]

\* The identifiers of the get_dates coroutines that may be in flight.
TaskIds == 1..2

\* A get_dates coroutine that has not been created.
NoTask ==
    [pc |-> "idle", n |-> Absent, start |-> NoDate, end |-> NoDate,
     now |-> Absent, w |-> Absent, acc |-> <<>>, dates |-> <<>>]

NoTasks == [i \in TaskIds |-> NoTask]

NoCall ==
    [called |-> FALSE, n |-> Absent, start |-> NoDate, end |-> NoDate,
     now |-> Absent, dates |-> <<>>]

\* What a get_dates call on sched leaves behind: its arguments, the clock at
\* the call and the dates returned.
Call(n, start, end) ==
    [called |-> TRUE, n |-> n, start |-> start, end |-> end, now |-> clock,
     dates |-> GetDates(sched, build, clock, n, start, end)]

\* The end argument at distance delta from the start.
EndAt(start, delta) ==
    IF delta = Absent THEN NoDate
    ELSE Aware((IF start = NoDate THEN clock ELSE InstantOf(start)) + delta, "UTC")

Init ==
    /\ build \in Builds
    /\ clock = ClockStart
    /\ sched = NoSchedule
    /\ last = NoCall
    /\ prev = NoCall
    /\ given = NoGiven
    /\ error = ""
    /\ native = NoNative
    /\ tasks = NoTasks
    /\ deployment = BaseTable
    /\ concurrency_limit_v2 = {}
    /\ migration = NoMigration

\* A validated constructor returns a schedule value.
Construct ==
    /\ sched = NoSchedule
    /\ sched' \in Schedules(clock)
    /\ UNCHANGED <<build, clock, last, prev, given, error, native, tasks,
                   deployment, concurrency_limit_v2, migration>>

\* await schedule.get_dates(n, start, end)
GetDatesCall ==
    /\ sched # NoSchedule
    /\ ~last.called
    /\ \E n \in Ns, start \in Starts, delta \in EndDeltas :
          last' = Call(n, start, EndAt(start, delta))
    /\ UNCHANGED <<build, clock, sched, prev, given, error, native, tasks,
                   deployment, concurrency_limit_v2, migration>>

\* The same call once more, with identical arguments.
GetDatesAgain ==
    /\ last.called
    /\ prev' = last
    /\ last' = Call(last.n, last.start, last.end)
    /\ UNCHANGED <<build, clock, sched, given, error, native, tasks,
                   deployment, concurrency_limit_v2, migration>>

\* Real time passes.
Tick ==
    /\ clock < ClockStart + MaxTicks
    /\ clock' = clock + 1
    /\ UNCHANGED <<build, sched, last, prev, given, error, native, tasks,
                   deployment, concurrency_limit_v2, migration>>

Next == Construct \/ GetDatesCall \/ GetDatesAgain \/ Tick

Spec == Init /\ [][Next]_vars

\* ------------------------------------------------- what a schedule denotes

\* The schedule fires at the local reading w: w is on the interval grid of the
\* anchor, matches the cron fields, or is generated by an RRULE clause or an
\* RDATE and by no EXRULE clause or EXDATE.
RuleFires(rule, dw, w) ==
    LET first == RuleFirst(rule, dw)
    IN /\ w >= first
       /\ (w - first) % Period(rule.freq) = 0
       /\ rule.count # Absent => (w - first) \div Period(rule.freq) < rule.count

Fires(s, z, w) ==
    CASE s.kind = "interval" ->
           (w - ToLocal(z, s.anchor_date.t)) % s.interval = 0
      [] s.kind = "cron" ->
           CronHour(s.cron) = Absent \/ HourOf(w) = CronHour(s.cron)
      [] s.kind = "rrule" ->
           LET rs == s.rrule
               dw == IF rs.dtstart = Absent THEN Date2018(1, 1, 0) ELSE rs.dtstart
           IN /\ \/ \E r \in rs.rrules : RuleFires(r, dw, w)
                 \/ \E d \in rs.rdates : ToLocal(z, d) = w
              /\ ~\E r \in rs.exrules : RuleFires(r, dw, w)
              /\ ~\E d \in rs.exdates : ToLocal(z, d) = w

\* The instant t is an occurrence of the schedule: some local reading at which
\* the schedule fires denotes t.
IsOccurrence(s, b, t) ==
    LET z == ArithZone(s, b)
    IN IF z = "UTC" THEN Fires(s, z, t)
       ELSE \E w \in {ToLocal(z, t) - 1, ToLocal(z, t)} :
               FromLocal(z, w) = t /\ Fires(s, z, w)

\* The instant the last call counted from, and the instant it counted to.
StartOf(c) == IF c.start = NoDate THEN c.now ELSE InstantOf(c.start)

EndOf(c) == IF c.end = NoDate THEN Absent ELSE InstantOf(c.end)

Instants(q) == {q[i].t : i \in 1..Len(q)}

\* An instant before every occurrence: a rule set generates nothing before its
\* DTSTART and its RDATEs.
Earliest(s, b) ==
    IF s.kind = "rrule"
    THEN LET rs == s.rrule
             dw == IF rs.dtstart = Absent THEN Date2018(1, 1, 0) ELSE rs.dtstart
         IN SetMin({FromLocal(ArithZone(s, b), dw)} \cup rs.rdates) - 1
    ELSE 0

\* No occurrence of the schedule lies in lo..hi.
NoOccurrence(s, b, lo, hi) ==
    \A t \in Max(lo, Earliest(s, b))..hi : ~IsOccurrence(s, b, t)

\* Occurrences are looked for up to this many hours after a call's start.
Horizon == 200

\* --------------------------------------------------------------------- C1

\* C1 as stated: for every schedule kind, get_dates with n omitted and end
\* omitted returns exactly one instant, the earliest occurrence of the schedule
\* at or after start.
C1_DefaultIsOneDate ==
    (last.called /\ last.n = Absent /\ last.end = NoDate) =>
        /\ Len(last.dates) = 1
        /\ last.dates[1].t >= StartOf(last)
        /\ IsOccurrence(sched, build, last.dates[1].t)
        /\ NoOccurrence(sched, build, StartOf(last), last.dates[1].t - 1)

\* C1 amended: with n and end omitted, get_dates returns the earliest
\* occurrence at or after start and nothing else; it returns the empty list
\* when the schedule has no occurrence at or after start, as an rrule schedule
\* whose COUNT is used up.
C1_DefaultIsNextDate ==
    (last.called /\ last.n = Absent /\ last.end = NoDate) =>
        IF last.dates = <<>>
        THEN /\ sched.kind = "rrule"
             /\ NoOccurrence(sched, build, StartOf(last), StartOf(last) + Horizon)
        ELSE /\ Len(last.dates) = 1
             /\ last.dates[1].t >= StartOf(last)
             /\ IsOccurrence(sched, build, last.dates[1].t)
             /\ NoOccurrence(sched, build, StartOf(last), last.dates[1].t - 1)

\* A call with n and end omitted returned the next date, later than start.
C1_Witness ==
    /\ last.called /\ last.n = Absent /\ last.end = NoDate
    /\ Len(last.dates) = 1
    /\ last.dates[1].t > StartOf(last)

\* ------------------------------------------------------- shapes of a result

StrictlyAscending(q) == \A i \in 1..(Len(q) - 1) : q[i].t < q[i + 1].t

AllAware(q) == \A i \in 1..Len(q) : q[i].zone \in Zones

AllWithin(q, lo, hi) == \A i \in 1..Len(q) : lo <= q[i].t /\ q[i].t <= hi

AllAtOrAfter(q, lo) == \A i \in 1..Len(q) : lo <= q[i].t

AllOccurrences(q) == \A i \in 1..Len(q) : IsOccurrence(sched, build, q[i].t)

\* The instant after the last date of the call, its start when it returned none.
AfterLast(c) ==
    IF c.dates = <<>> THEN StartOf(c) ELSE c.dates[Len(c.dates)].t + 1

\* The dates are the earliest occurrences from the start on, none left out.
NoneSkipped(c) ==
    \A t \in Max(StartOf(c), Earliest(sched, build))..(AfterLast(c) - 1) :
        IsOccurrence(sched, build, t) => t \in Instants(c.dates)

\* --------------------------------------------------------------------- C2

\* C2 as stated: for all schedules, get_dates(n=k, start=s) returns exactly k
\* ascending, distinct, timezone-aware instants, all >= s.
C2_ExactlyN ==
    (last.called /\ last.n # Absent /\ last.start # NoDate /\ last.end = NoDate) =>
        /\ Len(last.dates) = last.n
        /\ StrictlyAscending(last.dates)
        /\ AllAware(last.dates)
        /\ AllAtOrAfter(last.dates, StartOf(last))

\* C2 amended: get_dates(n=k, start=s) returns min(k, MAX_ITERATIONS)
\* ascending, distinct, timezone-aware instants, all >= s; an rrule schedule
\* with fewer occurrences at or after s returns just those.
C2_ExactlyMinNCap ==
    (last.called /\ last.n # Absent /\ last.start # NoDate /\ last.end = NoDate) =>
        /\ Len(last.dates) <= Min(last.n, MAX_ITERATIONS)
        /\ Len(last.dates) < Min(last.n, MAX_ITERATIONS) =>
              /\ sched.kind = "rrule"
              /\ NoOccurrence(sched, build, AfterLast(last), AfterLast(last) + Horizon)
        /\ StrictlyAscending(last.dates)
        /\ AllAware(last.dates)
        /\ AllAtOrAfter(last.dates, StartOf(last))

\* A call with n = 5 returned five dates, the first on its start.
C2_Witness ==
    /\ last.called /\ last.n = 5 /\ last.end = NoDate
    /\ last.start = ForwardStart
    /\ Len(last.dates) = 5
    /\ last.dates[1].t = StartOf(last)

\* --------------------------------------------------------------------- C3

\* C3: for all s <= e, every instant get_dates(start=s, end=e) returns lies in
\* [s, e], and it returns no more than MAX_ITERATIONS instants.
C3_WithinWindow ==
    (last.called /\ last.end # NoDate) =>
        /\ AllWithin(last.dates, StartOf(last), EndOf(last))
        /\ Len(last.dates) <= MAX_ITERATIONS

\* A call with an end returned a date on its start and a date on its end.
C3_Witness ==
    /\ last.called /\ last.n = Absent /\ last.end # NoDate
    /\ Len(last.dates) > 1
    /\ last.dates[1].t = StartOf(last)
    /\ last.dates[Len(last.dates)].t = EndOf(last)

\* --------------------------------------------------------------------- C4

\* C4: with n omitted and end given, get_dates returns the occurrences in
\* [start, end], both ends included, cut to the earliest MAX_ITERATIONS: none
\* inside the window is left out before the last date, and fewer than
\* MAX_ITERATIONS are returned only when the window holds no more.
C4_AllInWindowUpToCap ==
    (last.called /\ last.n = Absent /\ last.end # NoDate) =>
        /\ AllWithin(last.dates, StartOf(last), EndOf(last))
        /\ AllOccurrences(last.dates)
        /\ StrictlyAscending(last.dates)
        /\ NoneSkipped(last)
        /\ Len(last.dates) <= MAX_ITERATIONS
        /\ Len(last.dates) < MAX_ITERATIONS =>
              NoOccurrence(sched, build, AfterLast(last), EndOf(last))

\* A daily schedule that fires on the start returned one date for end = start.
C4_Witness ==
    /\ last.called /\ last.n = Absent /\ last.end # NoDate
    /\ sched.kind = "cron" /\ sched.cron = "0 0 * * *"
    /\ EndOf(last) = StartOf(last)
    /\ Len(last.dates) = 1

\* A window of 21 days on a daily schedule is cut to MAX_ITERATIONS dates.
C4_WitnessCap ==
    /\ last.called /\ last.n = Absent /\ last.end # NoDate
    /\ sched.kind = "interval" /\ sched.interval = 24
    /\ Len(last.dates) = MAX_ITERATIONS

\* --------------------------------------------------------------------- C5

\* C5: with both n and end given, get_dates returns at most min(n,
\* MAX_ITERATIONS) occurrences, all in [start, end]; it returns fewer than
\* that only when the window holds no more, and never a date after end.
C5_MinNCapWithinWindow ==
    (last.called /\ last.n # Absent /\ last.end # NoDate) =>
        /\ Len(last.dates) <= Min(last.n, MAX_ITERATIONS)
        /\ AllWithin(last.dates, StartOf(last), EndOf(last))
        /\ AllOccurrences(last.dates)
        /\ Len(last.dates) < Min(last.n, MAX_ITERATIONS) =>
              NoOccurrence(sched, build, AfterLast(last), EndOf(last))

\* get_dates(5, start, end = start + 2 days - 1 hour) on a daily rule
\* returned the two dates of the window.
C5_Witness ==
    /\ last.called /\ last.n = 5
    /\ sched.kind = "interval" /\ sched.interval = 24
    /\ last.end # NoDate /\ EndOf(last) = StartOf(last) + 47
    /\ Len(last.dates) = 2

\* --------------------------------------------------------------------- C6

\* C6: whatever n, start and end are, the dates get_dates returns are strictly
\* ascending, so none occurs twice, and none is naive.
C6_AscendingDistinctAware ==
    last.called =>
        /\ StrictlyAscending(last.dates)
        /\ \A i, j \in 1..Len(last.dates) :
              last.dates[i].t = last.dates[j].t => i = j
        /\ AllAware(last.dates)

\* Two RRULE clauses generate the DTSTART instant both; the call returned it
\* once, followed by the other two dates of the rule set.
C6_Witness ==
    /\ last.called /\ last.n = 5 /\ last.start = UtcStart
    /\ sched.kind = "rrule" /\ sched.rrule = TwoCounted
    /\ Len(last.dates) = 3
    /\ last.dates[1].t = FromLocal(sched.timezone, TwoCounted.dtstart)

\* --------------------------------------------------------------------- C7

\* The call of the unanchored-rule test: start on Thursday 2023-06-08, n = 3,
\* end = start + 21 days.
IsFridayCall(c) ==
    /\ c.called /\ c.n = 3
    /\ c.start = ThursdayStart
    /\ c.end = Aware(June2023(8, 0) + 21 * 24, "UTC")

\* [dt.date() for dt in dates]
DatesOf(q) == [i \in 1..Len(q) |-> q[i].t \div 24]

ThreeFridays ==
    <<June2023(9, 0) \div 24, June2023(16, 0) \div 24, June2023(23, 0) \div 24>>

\* C7: the same call with the same explicit start on the same schedule returns
\* the same dates whatever the clock reads at each call; the rule
\* "FREQ=WEEKLY;BYDAY=FR" without DTSTART returns the Fridays 2023-06-09,
\* 2023-06-16 and 2023-06-23 on every call.
C7_SameArgumentsSameDates ==
    /\ (prev.called /\ last.start # NoDate) => last.dates = prev.dates
    /\ (IsFridayCall(last) /\ sched = RRuleSchedule(WeeklyOnFriday, ""))
          => DatesOf(last.dates) = ThreeFridays

\* The unanchored weekly rule was asked twice, at two readings of the clock.
C7_Witness ==
    /\ prev.called /\ IsFridayCall(last)
    /\ sched = RRuleSchedule(WeeklyOnFriday, "")
    /\ prev.now # last.now
    /\ Len(last.dates) = 3

\* --------------------------------------------------------------------- C8

\* [d.astimezone(ZoneInfo("UTC")).hour for d in dates]
UtcHours(q) == [i \in 1..Len(q) |-> HourOf(q[i].t)]

\* [d.astimezone(ZoneInfo("America/New_York")).hour for d in dates]
NewYorkHours(q) == [i \in 1..Len(q) |-> HourOf(ToLocal("NY", q[i].t))]

EvenlySpaced(q, step) == \A i \in 1..(Len(q) - 1) : q[i + 1].t - q[i].t = step

SubDay(s) == s.kind = "interval" /\ s.interval % 24 # 0

\* IntervalSchedule(interval=timedelta(hours=1), timezone="America/New_York")
\* asked for n = 5 dates from start.
IsHourlyCall(start) ==
    /\ last.called /\ last.n = 5 /\ last.start = start /\ last.end = NoDate
    /\ sched.kind = "interval" /\ sched.interval = 1 /\ sched.timezone = "NY"

\* C8 as stated: consecutive dates of an interval schedule shorter than a day
\* are exactly one interval of elapsed time apart, also across a transition;
\* the hourly New York schedule gives UTC hours 4..8 from 2018-03-10 23:00 and
\* 3..7 from 2018-11-03 23:00.
C8_SubDayElapsed ==
    /\ (last.called /\ SubDay(sched)) => EvenlySpaced(last.dates, sched.interval)
    /\ IsHourlyCall(ForwardStart) =>
          /\ UtcHours(last.dates) = <<4, 5, 6, 7, 8>>
          /\ NewYorkHours(last.dates) = <<23, 0, 1, 3, 4>>
    /\ IsHourlyCall(BackwardStart) =>
          /\ UtcHours(last.dates) = <<3, 4, 5, 6, 7>>
          /\ NewYorkHours(last.dates) = <<23, 0, 1, 1, 2>>

\* C8 amended: on Python >= 3.13 consecutive dates of an interval schedule
\* shorter than a day are exactly one interval of elapsed time apart, also
\* across a transition.  The hourly New York schedule gives UTC hours 4..8
\* (local 23, 0, 1, 3, 4) from 2018-03-10 23:00 on every interpreter; from
\* 2018-11-03 23:00 it gives UTC hours 3..7 (local 23, 0, 1, 1, 2) on Python
\* >= 3.13 and UTC hours 3, 4, 5, 7, 8 (local 23, 0, 1, 2, 3) on older ones.
C8_SubDayElapsedOn313 ==
    /\ (last.called /\ SubDay(sched) /\ build = "py313")
          => EvenlySpaced(last.dates, sched.interval)
    /\ IsHourlyCall(ForwardStart) =>
          /\ UtcHours(last.dates) = <<4, 5, 6, 7, 8>>
          /\ NewYorkHours(last.dates) = <<23, 0, 1, 3, 4>>
    /\ (IsHourlyCall(BackwardStart) /\ build = "py313") =>
          /\ UtcHours(last.dates) = <<3, 4, 5, 6, 7>>
          /\ NewYorkHours(last.dates) = <<23, 0, 1, 1, 2>>
    /\ (IsHourlyCall(BackwardStart) /\ build = "pre313") =>
          /\ UtcHours(last.dates) = <<3, 4, 5, 7, 8>>
          /\ NewYorkHours(last.dates) = <<23, 0, 1, 2, 3>>

\* The hourly New York schedule was enumerated across the backward transition
\* on Python >= 3.13.
C8_Witness ==
    /\ IsHourlyCall(BackwardStart) /\ build = "py313"
    /\ Len(last.dates) = 5
    /\ last.dates[3].t < BackwardTransition
    /\ last.dates[4].t = BackwardTransition

\* --------------------------------------------------------------------- C9

\* The dates of the call lie on both sides of the transition.
Crosses(q, transition) ==
    /\ \E i \in 1..Len(q) : q[i].t < transition
    /\ \E i \in 1..Len(q) : q[i].t >= transition

\* The hour of the instant t on the schedule's local clock.
LocalHour(s, t) == HourOf(ToLocal(s.timezone, t))

\* IntervalSchedule(interval=timedelta(days=1), anchor_date=anchor) asked for
\* n = 5 dates from its anchor.
IsDailyCall(anchor) ==
    /\ last.called /\ last.n = 5 /\ last.start = anchor /\ last.end = NoDate
    /\ sched = IntervalSchedule(24, anchor, "", last.now)

IsCronCall(cron, start) ==
    /\ last.called /\ last.n = 5 /\ last.start = start /\ last.end = NoDate
    /\ sched = CronSchedule(cron, "NY")

\* C10: a cron schedule fires on its local clock.  Across the forward
\* transition an hourly cron keeps firing every hour of elapsed time, with no
\* date lost or repeated and none at the skipped local hour 2: from 2018-03-10
\* 23:00 New York the local hours are 23, 0, 1, 3, 4 and the UTC hours 4..8.
\* The cron "0 9 * * *" fires at local hour 9 on both sides of a transition.
C10_CronOnLocalClock ==
    /\ IsCronCall("0 * * * *", ForwardStart) =>
          /\ NewYorkHours(last.dates) = <<23, 0, 1, 3, 4>>
          /\ UtcHours(last.dates) = <<4, 5, 6, 7, 8>>
          /\ EvenlySpaced(last.dates, 1)
    /\ (last.called /\ sched.kind = "cron" /\ sched.cron = "0 9 * * *") =>
          \A i \in 1..Len(last.dates) : LocalHour(sched, last.dates[i].t) = 9
    /\ IsCronCall("0 9 * * *", ForwardAnchor) =>
          UtcHours(last.dates) = <<14, 14, 14, 13, 13>>
    /\ IsCronCall("0 9 * * *", BackwardAnchor) =>
          UtcHours(last.dates) = <<13, 13, 13, 14, 14>>

\* The hourly cron on the New York clock was enumerated across the forward
\* transition.
C10_Witness ==
    /\ IsCronCall("0 * * * *", ForwardStart)
    /\ Len(last.dates) = 5
    /\ Crosses(last.dates, ForwardTransition)

\* -------------------------------------------------------------------- C11

\* The local readings that denote the instant t in zone z.
ReadingsOf(z, t) ==
    IF z = "UTC" THEN {t}
    ELSE {w \in {ToLocal(z, t) - 1, ToLocal(z, t)} : FromLocal(z, w) = t}

\* The instant t is generated by an RRULE clause of the schedule or is one of
\* its RDATEs.
GeneratedAt(s, t) ==
    LET rs == s.rrule
    IN \/ \E r \in rs.rrules : \E w \in ReadingsOf(s.timezone, t) :
             RuleFires(r, DtstartOf(rs, Absent), w)
       \/ t \in rs.rdates

\* The instant t is generated by an EXRULE clause of the schedule or is one of
\* its EXDATEs.
ExcludedAt(s, t) ==
    LET rs == s.rrule
    IN \/ \E r \in rs.exrules : \E w \in ReadingsOf(s.timezone, t) :
             RuleFires(r, DtstartOf(rs, Absent), w)
       \/ t \in rs.exdates

InDifference(s, t) == GeneratedAt(s, t) /\ ~ExcludedAt(s, t)

\* The number of dates the call asked for: n, else MAX_ITERATIONS with an end
\* and one without, and never more than MAX_ITERATIONS.
AskedFor(c) ==
    IF c.n # Absent THEN Min(c.n, MAX_ITERATIONS)
    ELSE IF c.end # NoDate THEN MAX_ITERATIONS ELSE 1

\* The last instant the call may return: its end, else far enough after its
\* last date to see the next occurrence.
LookUntil(c) == IF c.end # NoDate THEN EndOf(c) ELSE AfterLast(c) + Horizon

\* C11: the dates get_dates returns for an RRuleSchedule are instants of
\* (RRULE-generated or RDATE) minus (EXRULE-generated or EXDATE), inside
\* [start, end], ascending, the earliest ones with none left out, and at most
\* MAX_ITERATIONS; an instant that is generated and excluded is not returned.
C11_RuleSetDifference ==
    (last.called /\ sched.kind = "rrule") =>
        /\ \A i \in 1..Len(last.dates) :
              /\ GeneratedAt(sched, last.dates[i].t)
              /\ ~ExcludedAt(sched, last.dates[i].t)
              /\ last.dates[i].t >= StartOf(last)
              /\ last.end # NoDate => last.dates[i].t <= EndOf(last)
        /\ StrictlyAscending(last.dates)
        /\ Len(last.dates) <= MAX_ITERATIONS
        /\ \A t \in Max(StartOf(last), Earliest(sched, build))..(AfterLast(last) - 1) :
              InDifference(sched, t) => t \in Instants(last.dates)
        /\ Len(last.dates) < AskedFor(last) =>
              \A t \in Max(AfterLast(last), Earliest(sched, build))..LookUntil(last) :
                  ~InDifference(sched, t)

\* The daily rule with an EXDATE on 2018-01-03 and an EXRULE on Thursday
\* 2018-01-04 was asked for five dates from 2018-01-01: it returned its RDATE
\* at 09:00 and skipped the two excluded days.
C11_Witness ==
    /\ last.called /\ last.n = 5 /\ last.start = UtcStart /\ last.end = NoDate
    /\ sched = RRuleSchedule(DailyWithDates, "UTC")
    /\ Instants(last.dates) =
          {Date2018(1, 1, 0), Date2018(1, 1, 9), Date2018(1, 2, 0),
           Date2018(1, 5, 0), Date2018(1, 6, 0)}

\* ---------------------------------------------------- validated constructors

\* Scaled-down value of the longest rrule text a schedule may hold.
MAX_RRULE_LENGTH == 200

\* The zone name is one the timezone database resolves.
Resolvable(tz) == tz \in Zones

IntervalErrorNegativeOnly(interval, tz) ==
    IF interval < 0 THEN "interval must be positive"
    ELSE IF tz # "" /\ ~Resolvable(tz) THEN "invalid timezone"
    ELSE ""

\* The validation error of IntervalSchedule(interval=..., timezone=...), ""
\* when the fields are valid.
IntervalError(interval, tz) ==
    IF interval <= 0 THEN "interval must be positive"
    ELSE IF tz # "" /\ ~Resolvable(tz) THEN "invalid timezone"
    ELSE ""

\* cron.split(): the fields of the expressions the tests use.
CronFields(cron) ==
    CASE cron = "0 * * * *" -> <<"0", "*", "*", "*", "*">>
      [] cron = "0 0 * * *" -> <<"0", "0", "*", "*", "*">>
      [] cron = "0 9 * * *" -> <<"0", "9", "*", "*", "*">>
      [] cron = "5 4 * * *" -> <<"5", "4", "*", "*", "*">>
      [] cron = "* * * * MON" -> <<"*", "*", "*", "*", "MON">>
      [] cron = "30 8 * * sat-sun" -> <<"30", "8", "*", "*", "sat-sun">>
      [] cron = "* * * * mon,wed,fri" -> <<"*", "*", "*", "*", "mon,wed,fri">>
      [] cron = "5 4 R * *" -> <<"5", "4", "R", "*", "*">>
      [] cron = "invalid cron" -> <<"invalid", "cron">>
      [] OTHER -> <<cron>>

CronAliases == {"@yearly", "@weekly", "@daily", "@hourly"}

\* The random and hashed tokens the field evaluator knows and the schedule
\* refuses.
RandomTokens == {"R", "H", "r", "h"}

\* What each of the five fields may hold: minute, hour, day of month, month,
\* day of week (names, ranges and lists included).
FieldTokens ==
    <<{"*", "0", "5", "30"}, {"*", "0", "4", "8", "9"}, {"*"}, {"*"},
      {"*", "MON", "sat-sun", "mon,wed,fri"}>>

CronErrorNoRandomCheck(cron) ==
    LET f == CronFields(cron)
    IN IF Len(f) = 1 /\ f[1] \in CronAliases THEN ""
       ELSE IF Len(f) # 5 THEN "Invalid cron string"
       ELSE IF \E i \in 1..5 : f[i] \notin FieldTokens[i] THEN "Invalid cron string"
       ELSE ""

\* The validation error of CronSchedule(cron=...), "" for a valid expression.
CronError(cron) ==
    LET f == CronFields(cron)
    IN IF Len(f) = 1 /\ f[1] \in CronAliases THEN ""
       ELSE IF Len(f) # 5 THEN "Invalid cron string"
       ELSE IF \E i \in 1..5 : f[i] \in RandomTokens
            THEN "Random and Hashed expressions are unsupported"
       ELSE IF \E i \in 1..5 : f[i] \notin FieldTokens[i] THEN "Invalid cron string"
       ELSE ""

\* len() of one rule: "FREQ=DAILY;COUNT=2;BYDAY=TH".
RuleLength(r) ==
    Len("FREQ=") + Len(r.freq)
        + (IF r.count = Absent THEN 0
           ELSE Len(";COUNT=") + (IF r.count < 10 THEN 1 ELSE 2))
        + (IF r.byday = Absent THEN 0 ELSE Len(";BYDAY=TH"))

RECURSIVE RuleLinesLength(_, _)
\* len() of the lines of a set of rules, each line with its keyword and its
\* line break.
RuleLinesLength(rules, keyword) ==
    IF rules = {} THEN 0
    ELSE LET r == CHOOSE x \in rules : TRUE
         IN Len(keyword) + RuleLength(r) + 1 + RuleLinesLength(rules \ {r}, keyword)

\* len() of a line of comma-joined dates: "RDATE:20221012T134000Z,...".
DateLineLength(dates, keyword) ==
    IF dates = {} THEN 0
    ELSE Len(keyword) + Cardinality(dates) * Len("20221012T134000Z")
             + (Cardinality(dates) - 1) + 1

\* len(rrule): the length of the text of a rule set, the last line without a
\* line break.
TextLength(rs) ==
    Max(0, (IF rs.dtstart = Absent THEN 0 ELSE Len("DTSTART:19970902T090000") + 1)
               + RuleLinesLength(rs.rrules, "RRULE:")
               + RuleLinesLength(rs.exrules, "EXRULE:")
               + DateLineLength(rs.rdates, "RDATE:")
               + DateLineLength(rs.exdates, "EXDATE:") - 1)

RRuleErrorNoGuard(rs, tz) ==
    IF tz # "" /\ ~Resolvable(tz) THEN "invalid timezone" ELSE ""

\* The validation error of RRuleSchedule(rrule=..., timezone=...), "" when the
\* text is no longer than MAX_RRULE_LENGTH and the timezone resolves.
RRuleError(rs, tz) ==
    IF TextLength(rs) > MAX_RRULE_LENGTH THEN "rrule too long"
    ELSE IF tz # "" /\ ~Resolvable(tz) THEN "invalid timezone"
    ELSE ""

\* pydantic.ValidationError, as opposed to the ValueError of from_rrule.
ValidationErrors ==
    {"interval must be positive", "invalid timezone", "Invalid cron string",
     "Random and Hashed expressions are unsupported", "rrule too long"}

\* ------------------------------------------------- from_rrule and to_rrule

\* One RRULE or EXRULE component of a dateutil rruleset: rrule.rrule(freq,
\* count=..., dtstart=...).
Component(rule, dtstart) == [rule |-> rule, dtstart |-> dtstart]

\* The DTSTARTs of the RRULE and EXRULE components of a rule set.
DtstartsOf(x) == {c.dtstart : c \in x.rrules \cup x.exrules}

\* The zones of the DTSTARTs; a naive DTSTART has none.
DtstartZones(x) == {d.zone : d \in DtstartsOf(x)} \ {"naive"}

DtstartErrorsValuesOnly(x) ==
    IF Cardinality({InstantOf(d) : d \in DtstartsOf(x)}) > 1
    THEN {"too many dtstarts"} ELSE {}

\* The errors from_rrule can raise for the rule set: its components start at
\* more than one instant, or in more than one zone.
DtstartErrors(x) ==
    (IF Cardinality({InstantOf(d) : d \in DtstartsOf(x)}) > 1
     THEN {"too many dtstarts"} ELSE {})
        \cup (IF Cardinality(DtstartZones(x)) > 1
              THEN {"too many dtstart timezones"} ELSE {})

\* The timezone from_rrule gives the schedule: the zone of the DTSTART, UTC
\* when the DTSTART is naive or there is none.
TimezoneOf(x) ==
    IF DtstartZones(x) = {} THEN "UTC" ELSE CHOOSE z \in DtstartZones(x) : TRUE

\* The text from_rrule writes: one DTSTART line with the local reading, a line
\* for each RRULE and EXRULE, the RDATEs and the EXDATEs as UTC instants.
Serialize(x) ==
    [dtstart |-> (IF DtstartsOf(x) = {} THEN Absent
                  ELSE LET d == CHOOSE y \in DtstartsOf(x) : TRUE
                       IN IF d.zone = "naive" THEN d.t ELSE ToLocal(d.zone, d.t)),
     rrules |-> {c.rule : c \in x.rrules},
     exrules |-> {c.rule : c \in x.exrules},
     rdates |-> {InstantOf(d) : d \in x.rdates},
     exdates |-> {InstantOf(d) : d \in x.exdates}]

\* RRuleSchedule.from_rrule(x) for a rule set that passed the DTSTART checks.
FromRRule(x) == RRuleSchedule(Serialize(x), TimezoneOf(x))

ComponentsFirstOnly(rules, dtstart) ==
    IF rules = {} THEN {}
    ELSE {Component(CHOOSE r \in rules : TRUE, dtstart)}

\* The components parsed from the RRULE (or EXRULE) lines of the text, each
\* with the DTSTART of the text.
Components(rules, dtstart) == {Component(r, dtstart) : r \in rules}

LocalizeKeepsUtc(t, tz) == Aware(t, "UTC")

\* The instant as a datetime of the schedule's timezone.
Localize(t, tz) == Aware(t, tz)

\* schedule.to_rrule(): the text parsed into a rule set, every DTSTART, RDATE
\* and EXDATE in the schedule's timezone.
ToRRule(s, now) ==
    LET rs == s.rrule
        dtstart == Localize(FromLocal(s.timezone, DtstartOf(rs, now)), s.timezone)
    IN [rrules |-> Components(rs.rrules, dtstart),
        exrules |-> Components(rs.exrules, dtstart),
        rdates |-> {Localize(d, s.timezone) : d \in rs.rdates},
        exdates |-> {Localize(d, s.timezone) : d \in rs.exdates}]

\* ------------------------------------------------------ constructor inputs

\* timedelta(minutes=-1), timedelta(minutes=0) and the valid intervals.
IntervalArgs == {-1, 0} \cup Intervals

\* parse_datetime(str(now("America/New_York"))): a datetime that carries the
\* bare offset -05:00 and no zone name.
OffsetAnchor == Aware(FromLocal("NY", Date2018(3, 8, 9)), "-05:00")

\* datetime(2021, 1, 1), a naive anchor.
NaiveAnchor == Naive(Date2018(1, 1, 0))

AnchorArgs == Anchors \cup {OffsetAnchor, NaiveAnchor}

\* timezone="fake" beside the valid arguments.
TimezoneTexts == TimezoneArgs \cup {"fake"}

CronArgs ==
    Crons \cup CronAliases
        \cup {"5 4 * * *", "* * * * MON", "30 8 * * sat-sun", "* * * * mon,wed,fri",
              "invalid cron", "5 4 R * *"}

\* The first k days from 2018-01-01, as RDATE or EXDATE entries.
DaysFrom2018(k) == {Date2018(1, 1, 0) + 24 * i : i \in 0..(k - 1)}

\* The sizes of the date lists: five entries, the longest list that fits in a
\* text of MAX_RRULE_LENGTH, the shortest that does not, and three years of days.
DateCounts == {5, 11, 12, 365 * 3}

\* "DTSTART:19970902T090000\nRRULE:...;COUNT=2;BYDAY=TU\nRRULE:...;COUNT=1;BYDAY=TH"
TwoRules ==
    [NoRuleSet EXCEPT !.dtstart = Date2018(1, 2, 9),
                      !.rrules = {Rule("WEEKLY", 2, 1), Rule("WEEKLY", 1, 3)}]

\* "DTSTART:19970902T090000\nEXRULE:...;COUNT=2;BYDAY=TU\nRRULE:...;COUNT=1;BYDAY=TH"
RuleAndExrule ==
    [NoRuleSet EXCEPT !.dtstart = Date2018(1, 2, 9),
                      !.rrules = {Rule("WEEKLY", 1, 3)},
                      !.exrules = {Rule("WEEKLY", 2, 1)}]

\* The rrule texts a constructor may be given.
RuleTexts ==
    RuleSets \cup {TwoRules, RuleAndExrule}
        \cup {[NoRuleSet EXCEPT !.rdates = DaysFrom2018(k)] : k \in DateCounts}
        \cup {[NoRuleSet EXCEPT !.exdates = DaysFrom2018(k)] : k \in DateCounts}

\* datetime(2018, 1, 11, 4, tzinfo=ZoneInfo("America/New_York"))
DtNyc == Aware(FromLocal("NY", Date2018(1, 11, 4)), "NY")

\* datetime(2018, 1, 11, 3, tzinfo=ZoneInfo("America/Chicago")): the instant
\* of DtNyc.
DtChicago == Aware(InstantOf(DtNyc), "Chicago")

\* datetime(2018, 2, 11, 4, tzinfo=ZoneInfo("America/New_York"))
DtNycFebruary == Aware(FromLocal("NY", Date2018(2, 11, 4)), "NY")

\* datetime(2018, 2, 11, 3, tzinfo=ZoneInfo("America/Chicago"))
DtChicagoFebruary == Aware(InstantOf(DtNycFebruary), "Chicago")

HourlyTen == Rule("HOURLY", 10, Absent)

DailyTen == Rule("DAILY", 10, Absent)

\* An rruleset with one RRULE, one EXRULE, one RDATE and one EXDATE, all in
\* New York.
FourComponents ==
    [rrules |-> {Component(HourlyTen, DtNyc)},
     exrules |-> {Component(DailyTen, DtNyc)},
     rdates |-> {Aware(FromLocal("NY", Date2018(2, 28, 0)), "NY")},
     exdates |-> {Aware(FromLocal("NY", Date2018(3, 1, 0)), "NY")}]

\* An rruleset of two RRULEs that start at dtstart and at other.
TwoStarts(dtstart, other) ==
    [NoNative EXCEPT !.rrules =
        {Component(HourlyTen, dtstart), Component(HourlyTen, other)}]

\* The rule sets from_rrule may be given: rules of one DTSTART, aware or naive,
\* and rules of two DTSTARTs that differ in the instant, in the zone, or in
\* both, among RRULEs or between an RRULE and an EXRULE.
NativeObjects ==
    {FourComponents,
     [FourComponents EXCEPT !.rdates = {UtcStart} \cup FourComponents.rdates],
     [NoNative EXCEPT !.rrules = {Component(HourlyTen, ForwardStart)}],
     [NoNative EXCEPT !.rrules = {Component(DailyTen, UtcStart)}],
     [NoNative EXCEPT !.rrules = {Component(DailyTen, NaiveAnchor)}],
     [NoNative EXCEPT !.rrules =
         {Component(DailyTen, DtNyc), Component(HourlyTen, DtNyc)}],
     TwoStarts(DtNyc, DtChicago),
     TwoStarts(DtNyc, DtNycFebruary),
     TwoStarts(DtNyc, DtChicagoFebruary),
     [FourComponents EXCEPT !.exrules = {Component(DailyTen, DtNycFebruary)}],
     [FourComponents EXCEPT !.exrules = {Component(DailyTen, DtChicago)}]}

\* ------------------------------------------------ runs of the constructors

\* The constructor raised: no schedule value exists.
Outcome(e, s) == IF e = "" THEN s ELSE NoSchedule

\* IntervalSchedule(interval=i, anchor_date=a, timezone=tz)
NewIntervalSchedule ==
    /\ \E i \in IntervalArgs, a \in AnchorArgs, tz \in TimezoneTexts :
          /\ given' = [NoGiven EXCEPT !.ctor = "IntervalSchedule", !.interval = i,
                                      !.anchor = a, !.timezone = tz]
          /\ error' = IntervalError(i, tz)
          /\ sched' = IF IntervalError(i, tz) = ""
                      THEN IntervalSchedule(i, a, tz, clock) ELSE NoSchedule
    /\ native' = NoNative
    /\ UNCHANGED <<build, clock, last, prev, tasks,
                   deployment, concurrency_limit_v2, migration>>

\* CronSchedule(cron=c, timezone=tz)
NewCronSchedule ==
    /\ \E c \in CronArgs, tz \in TimezoneTexts :
          LET e == IF CronError(c) # "" THEN CronError(c)
                   ELSE IF tz # "" /\ ~Resolvable(tz) THEN "invalid timezone"
                   ELSE ""
          IN /\ given' = [NoGiven EXCEPT !.ctor = "CronSchedule", !.cron = c,
                                         !.timezone = tz]
             /\ error' = e
             /\ sched' = Outcome(e, CronSchedule(c, tz))
    /\ native' = NoNative
    /\ UNCHANGED <<build, clock, last, prev, tasks,
                   deployment, concurrency_limit_v2, migration>>

\* RRuleSchedule(rrule=text, timezone=tz)
NewRRuleSchedule ==
    /\ \E text \in RuleTexts, tz \in TimezoneTexts :
          /\ given' = [NoGiven EXCEPT !.ctor = "RRuleSchedule", !.rrule = text,
                                      !.timezone = tz]
          /\ error' = RRuleError(text, tz)
          /\ sched' = Outcome(RRuleError(text, tz), RRuleSchedule(text, tz))
    /\ native' = NoNative
    /\ UNCHANGED <<build, clock, last, prev, tasks,
                   deployment, concurrency_limit_v2, migration>>

\* RRuleSchedule.from_rrule(x): the DTSTART checks, then the constructor on the
\* text written from x.
FromRRuleCall ==
    /\ \E x \in NativeObjects :
          /\ given' = [NoGiven EXCEPT !.ctor = "from_rrule", !.object = x]
          /\ IF DtstartErrors(x) # {}
             THEN /\ error' \in DtstartErrors(x)
                  /\ sched' = NoSchedule
             ELSE /\ error' = RRuleError(Serialize(x), TimezoneOf(x))
                  /\ sched' = Outcome(RRuleError(Serialize(x), TimezoneOf(x)),
                                      FromRRule(x))
    /\ native' = NoNative
    /\ UNCHANGED <<build, clock, last, prev, tasks,
                   deployment, concurrency_limit_v2, migration>>

\* schedule.to_rrule()
ToRRuleCall ==
    /\ sched.kind = "rrule"
    /\ native' = ToRRule(sched, clock)
    /\ UNCHANGED <<build, clock, sched, last, prev, given, error, tasks,
                   deployment, concurrency_limit_v2, migration>>

NextConstruct ==
    \/ NewIntervalSchedule
    \/ NewCronSchedule
    \/ NewRRuleSchedule
    \/ FromRRuleCall
    \/ ToRRuleCall
    \/ Tick

\* Runs in which schedules are constructed, from valid and from invalid
\* arguments, and rule sets are converted.
SpecConstruct == Init /\ [][NextConstruct]_vars

\* -------------------------------------------------------------------- C12

SameCount(S, T) == Cardinality(S) = Cardinality(T)

\* C12: to_rrule() on the schedule from_rrule(x) returned has as many RRULE,
\* EXRULE, RDATE and EXDATE components as x; to_rrule() on a schedule made
\* from text with k RRULE lines (k = 2 included) has k RRULE components; the
\* DTSTART of every RRULE and EXRULE and every RDATE and EXDATE of the result
\* is in the schedule's timezone.
C12_RoundTripKeepsComponents ==
    (native # NoNative) =>
        /\ given.ctor = "from_rrule" =>
              /\ SameCount(native.rrules, given.object.rrules)
              /\ SameCount(native.exrules, given.object.exrules)
              /\ SameCount(native.rdates, given.object.rdates)
              /\ SameCount(native.exdates, given.object.exdates)
        /\ given.ctor = "RRuleSchedule" =>
              /\ SameCount(native.rrules, given.rrule.rrules)
              /\ SameCount(native.exrules, given.rrule.exrules)
              /\ SameCount(native.rdates, given.rrule.rdates)
              /\ SameCount(native.exdates, given.rrule.exdates)
        /\ \A c \in native.rrules \cup native.exrules :
              c.dtstart.zone = sched.timezone
        /\ \A d \in native.rdates \cup native.exdates : d.zone = sched.timezone

\* The rule set of one RRULE, one EXRULE, one RDATE and one EXDATE in New York
\* went through from_rrule and to_rrule.
C12_Witness ==
    /\ given.ctor = "from_rrule" /\ given.object = FourComponents
    /\ sched.timezone = "NY"
    /\ Cardinality(native.rrules) = 1 /\ Cardinality(native.exrules) = 1
    /\ Cardinality(native.rdates) = 1 /\ Cardinality(native.exdates) = 1

\* -------------------------------------------------------------------- C13

\* The instants and the zones of the DTSTARTs of the rule set given to
\* from_rrule.
GivenDtstartInstants ==
    {c.dtstart.t : c \in given.object.rrules \cup given.object.exrules}

GivenDtstartZones ==
    {c.dtstart.zone : c \in given.object.rrules \cup given.object.exrules} \ {"naive"}

\* C13: a rule set whose RRULE and EXRULE clauses start at more than one
\* instant, or in more than one zone, never becomes a schedule: from_rrule
\* raises "too many dtstarts" for the first, "too many dtstart timezones" for
\* the second (one of the two when both hold), and it raises neither for a
\* rule set without the conflict.
C13_ConflictingDtstartsRejected ==
    given.ctor = "from_rrule" =>
        /\ (Cardinality(GivenDtstartInstants) > 1 \/ Cardinality(GivenDtstartZones) > 1)
              => /\ error \in {"too many dtstarts", "too many dtstart timezones"}
                 /\ sched = NoSchedule
        /\ error = "too many dtstarts" => Cardinality(GivenDtstartInstants) > 1
        /\ error = "too many dtstart timezones" => Cardinality(GivenDtstartZones) > 1
        /\ (Cardinality(GivenDtstartInstants) > 1 /\ Cardinality(GivenDtstartZones) <= 1)
              => error = "too many dtstarts"
        /\ (Cardinality(GivenDtstartZones) > 1 /\ Cardinality(GivenDtstartInstants) <= 1)
              => error = "too many dtstart timezones"

\* Two RRULEs that start at one instant, in New York and in Chicago, were
\* rejected.
C13_Witness ==
    /\ given.ctor = "from_rrule" /\ given.object = TwoStarts(DtNyc, DtChicago)
    /\ error = "too many dtstart timezones"
    /\ sched = NoSchedule

\* -------------------------------------------------------------------- C14

\* C14: RRuleSchedule(rrule=text) raises a validation error when the text is
\* longer than MAX_RRULE_LENGTH, whatever it holds, and no RRuleSchedule value
\* holds a longer text.
C14_NoTextLongerThanMax ==
    /\ (given.ctor = "RRuleSchedule" /\ TextLength(given.rrule) > MAX_RRULE_LENGTH)
          => /\ error \in ValidationErrors
             /\ sched = NoSchedule
    /\ sched.kind = "rrule" => TextLength(sched.rrule) <= MAX_RRULE_LENGTH

\* The text of 365 * 3 RDATE entries was rejected.
C14_Witness ==
    /\ given.ctor = "RRuleSchedule"
    /\ Cardinality(given.rrule.rdates) = 365 * 3
    /\ TextLength(given.rrule) > MAX_RRULE_LENGTH
    /\ error = "rrule too long"
    /\ sched = NoSchedule

\* -------------------------------------------------------------------- C15

\* C15: IntervalSchedule(interval=i) raises a validation error when i is zero
\* or negative, and every IntervalSchedule value has a positive interval.
C15_IntervalIsPositive ==
    /\ (given.ctor = "IntervalSchedule" /\ given.interval <= 0)
          => /\ error \in ValidationErrors
             /\ sched = NoSchedule
    /\ sched.kind = "interval" => sched.interval > 0

\* The interval of zero minutes was rejected.
C15_Witness ==
    /\ given.ctor = "IntervalSchedule" /\ given.interval = 0
    /\ error = "interval must be positive"
    /\ sched = NoSchedule

\* -------------------------------------------------------------------- C16

\* The expressions the tests expect CronSchedule to accept.
AcceptedCrons ==
    CronAliases \cup {"5 4 * * *", "* * * * MON", "30 8 * * sat-sun", "* * * * mon,wed,fri"}

\* C16: CronSchedule(cron=c) raises a validation error at construction for a
\* malformed expression, and for one with a random or hashed token the error
\* "Random and Hashed expressions are unsupported"; no CronSchedule value
\* holds such an expression, so get_dates is never given one to reject.  The
\* aliases and the expressions with weekday names, ranges and lists are
\* accepted and stored as given.
C16_CronCheckedAtConstruction ==
    /\ given.ctor = "CronSchedule" =>
          /\ given.cron = "5 4 R * *" =>
                /\ error = "Random and Hashed expressions are unsupported"
                /\ sched = NoSchedule
          /\ given.cron = "invalid cron" =>
                /\ error \in ValidationErrors
                /\ sched = NoSchedule
          /\ (given.cron \in AcceptedCrons /\ given.timezone # "fake") =>
                /\ error = ""
                /\ sched.kind = "cron"
                /\ sched.cron = given.cron
    /\ sched.kind = "cron" => sched.cron \notin {"5 4 R * *", "invalid cron"}

\* The expression with the random token R was rejected with its message.
C16_Witness ==
    /\ given.ctor = "CronSchedule" /\ given.cron = "5 4 R * *"
    /\ given.timezone = ""
    /\ error = "Random and Hashed expressions are unsupported"
    /\ sched = NoSchedule

\* -------------------------------------------------------------------- C17

\* C17: IntervalSchedule rejects a timezone that does not resolve; it keeps a
\* valid timezone it is given, and the anchor keeps its own zone; without a
\* timezone it takes the named zone of the anchor, and "UTC" when the anchor
\* carries a bare UTC offset or no zone name.
C17_IntervalTimezone ==
    (given.ctor = "IntervalSchedule" /\ given.interval > 0) =>
        /\ (given.timezone # "" /\ given.timezone \notin Zones) =>
              /\ error \in ValidationErrors
              /\ sched = NoSchedule
        /\ given.timezone \in Zones =>
              /\ error = ""
              /\ sched.timezone = given.timezone
              /\ (given.anchor # NoDate /\ given.anchor.zone # "naive") =>
                    sched.anchor_date = given.anchor
        /\ given.timezone = "" =>
              /\ error = ""
              /\ sched.timezone =
                    (IF given.anchor.zone \in Zones THEN given.anchor.zone ELSE "UTC")
              /\ given.anchor # NoDate => sched.anchor_date.t = given.anchor.t

\* The anchor with the bare offset -05:00 gave the timezone "UTC" and kept its
\* offset.
C17_Witness ==
    /\ given.ctor = "IntervalSchedule" /\ given.anchor = OffsetAnchor
    /\ given.timezone = ""
    /\ sched.timezone = "UTC"
    /\ sched.anchor_date.zone = "-05:00"

\* ------------------------------------------------- get_dates as a coroutine

ExhaustedNever(cand) == FALSE

\* The schedule has no reading left to generate.
Exhausted(cand) == cand = Absent

\* One turn of the generation loop from the cursor w with the dates acc
\* collected so far: the loop ends, or goes on from the next reading.
GenerateStep(s, z, now, w, start, end, limit, acc) ==
    LET cand == NextWall(s, z, now, w)
        d == FromLocal(z, cand)
        keep == NotBefore(d, start) /\ IsNew(d, acc) /\ ~Excluded(s, z, now, cand)
        acc2 == IF keep THEN Append(acc, d) ELSE acc
    IN IF Exhausted(cand) THEN [done |-> TRUE, w |-> w, acc |-> acc]
       ELSE IF PastEnd(d, end) THEN [done |-> TRUE, w |-> w, acc |-> acc]
       ELSE IF Len(acc2) >= limit THEN [done |-> TRUE, w |-> w, acc |-> acc2]
       ELSE [done |-> FALSE, w |-> cand + 1, acc |-> acc2]

CursorOfFirst(ts, i) == ts[1].w

\* The cursor of a call is its own: the rule set is built anew for every call,
\* none is kept on the schedule.
Cursor(ts, i) == ts[i].w

\* The schedules the coroutines run on: an hourly interval and an hourly cron
\* in New York, a rule set that runs out and a daily rule set with exclusions.
TaskSchedules ==
    {IntervalSchedule(1, ForwardAnchor, "NY", ClockStart),
     CronSchedule("0 * * * *", "NY"),
     RRuleSchedule(TwoCounted, "UTC"),
     RRuleSchedule(DailyWithDates, "UTC")}

\* The arguments of the calls: n omitted with an end 21 days after the start,
\* or n beyond MAX_ITERATIONS without an end.
TaskCalls ==
    {[n |-> Absent, delta |-> 21 * 24], [n |-> MAX_ITERATIONS + 2, delta |-> Absent]}

TaskStarts == {UtcStart, ForwardStart}

ConstructForTasks ==
    /\ sched = NoSchedule
    /\ sched' \in TaskSchedules
    /\ UNCHANGED <<build, clock, last, prev, given, error, native, tasks,
                   deployment, concurrency_limit_v2, migration>>

\* The coroutine get_dates(n, start, end) is created and runs up to its loop.
\* The coroutines are created in the order of their identifiers.
Begin(i) ==
    /\ sched # NoSchedule
    /\ tasks[i].pc = "idle"
    /\ \A j \in 1..(i - 1) : tasks[j].pc # "idle"
    /\ \E c \in TaskCalls, start \in TaskStarts :
          tasks' = [tasks EXCEPT ![i] =
              [pc |-> "running", n |-> c.n, start |-> start,
               end |-> EndAt(start, c.delta), now |-> clock,
               w |-> ToLocal(ArithZone(sched, build), InstantOf(start)) - 1,
               acc |-> <<>>, dates |-> <<>>]]
    /\ UNCHANGED <<build, clock, sched, last, prev, given, error, native,
                   deployment, concurrency_limit_v2, migration>>

\* The coroutine is resumed for one turn of its loop; when the loop ends it
\* returns its dates.
Step(i) ==
    /\ tasks[i].pc = "running"
    /\ LET t == tasks[i]
           endI == IF t.end = NoDate THEN Absent ELSE InstantOf(t.end)
           r == GenerateStep(sched, ArithZone(sched, build), t.now, Cursor(tasks, i),
                             InstantOf(t.start), endI, Limit(t.n, endI), t.acc)
       IN tasks' = [tasks EXCEPT ![i] =
              IF r.done
              THEN [t EXCEPT !.pc = "done", !.acc = r.acc,
                             !.dates = Tag(r.acc, sched.timezone)]
              ELSE [t EXCEPT !.w = r.w, !.acc = r.acc]]
    /\ UNCHANGED <<build, clock, sched, last, prev, given, error, native,
                   deployment, concurrency_limit_v2, migration>>

NextTasks ==
    \/ ConstructForTasks
    \/ \E i \in TaskIds : Begin(i)
    \/ \E i \in TaskIds : Step(i)

\* Runs in which get_dates coroutines on one schedule are resumed in any order.
SpecTasks == Init /\ [][NextTasks]_vars

NextOneTask == ConstructForTasks \/ Begin(1) \/ Step(1)

\* Runs of one get_dates coroutine: the event loop resumes a coroutine that is
\* ready.
FairSpecOneTask == Init /\ [][NextOneTask]_vars /\ WF_vars(Step(1))

\* -------------------------------------------------------------------- C18

\* C18: however the get_dates calls on a schedule are interleaved, every call
\* returns what it returns when it runs alone, and the schedule value is the
\* same after the calls as before.
C18_CallsDoNotInterfere ==
    /\ [](\A i \in TaskIds :
             tasks[i].pc = "done" =>
                 tasks[i].dates = GetDates(sched, build, tasks[i].now, tasks[i].n,
                                           tasks[i].start, tasks[i].end))
    /\ [][sched # NoSchedule => sched' = sched]_vars

\* Two calls with different starts on the daily rule set with exclusions: the
\* first created is suspended in its loop with two dates collected, the second
\* ran meanwhile and has returned its MAX_ITERATIONS dates.
C18_Witness ==
    /\ sched = RRuleSchedule(DailyWithDates, "UTC")
    /\ tasks[2].pc = "done" /\ tasks[2].start = UtcStart
    /\ Len(tasks[2].dates) = MAX_ITERATIONS
    /\ tasks[1].pc = "running" /\ tasks[1].start = ForwardStart
    /\ Len(tasks[1].acc) = 2

\* -------------------------------------------------------------------- C19

IsIntervalResult == last.called /\ sched.kind = "interval" /\ last.dates # <<>>

\* The first date of the last call.
First == last.dates[1].t

\* The instant t is anchor_date + k * interval for an integer k, counted on the
\* clock the schedule counts on.
OnAnchorGrid(t) ==
    LET z == ArithZone(sched, build)
    IN (ToLocal(z, t) - ToLocal(z, sched.anchor_date.t)) % sched.interval = 0

IsEveryDayCall ==
    /\ last.called /\ last.n = 5 /\ last.start = UtcStart /\ last.end = NoDate
    /\ sched = CronSchedule("0 0 * * *", "")

\* C21: the lower bound of a cron schedule is inclusive.  When the start
\* matches the cron fields on the schedule's local clock, the start is the
\* first date returned; the cron "0 0 * * *" asked for n = 5 dates from a
\* midnight UTC returns start, start + 1 day, ..., start + 4 days.  A call
\* whose end lies before its start has an empty window and returns nothing.
C21_CronStartInclusive ==
    /\ (last.called /\ sched.kind = "cron"
           /\ IsOccurrence(sched, build, StartOf(last))
           /\ (EndOf(last) = Absent \/ EndOf(last) >= StartOf(last))) =>
          /\ last.dates # <<>>
          /\ last.dates[1].t = StartOf(last)
    /\ IsEveryDayCall =>
          last.dates = [i \in 1..5 |-> Aware(UtcStart.t + 24 * (i - 1), "UTC")]

\* The daily cron was asked from a midnight UTC and returned the start first.
C21_Witness ==
    /\ IsEveryDayCall
    /\ Len(last.dates) = 5
    /\ last.dates[1] = UtcStart
    /\ HourOf(ToLocal(sched.timezone, StartOf(last))) = CronHour(sched.cron)

\* -------------------------------------------------------------------- C22

\* The readings of the dates on the schedule's local clock.
LocalReadings(q) == [i \in 1..Len(q) |-> ToLocal(sched.timezone, q[i].t)]

\* C22: across the backward transition an hourly cron fires once per local
\* hour label and not twice in the repeated hour: no two dates of a cron
\* schedule read the same on its local clock, the second 01:00 of 2018-11-04
\* New York is never returned, and from 2018-11-03 23:00 New York the hourly
\* cron asked for n = 5 dates gives local hours 23, 0, 1, 2, 3 and UTC hours
\* 3, 4, 5, 7, 8, two hours of elapsed time lying between the third date and
\* the fourth.
C22_CronOncePerLocalHour ==
    /\ (last.called /\ sched.kind = "cron") =>
          /\ \A i, j \in 1..Len(last.dates) :
                i < j => LocalReadings(last.dates)[i] < LocalReadings(last.dates)[j]
          /\ sched.timezone = "NY" => BackwardTransition \notin Instants(last.dates)
    /\ IsCronCall("0 * * * *", BackwardStart) =>
          /\ NewYorkHours(last.dates) = <<23, 0, 1, 2, 3>>
          /\ UtcHours(last.dates) = <<3, 4, 5, 7, 8>>
          /\ last.dates[4].t - last.dates[3].t = 2

\* The hourly cron on the New York clock was enumerated across the backward
\* transition: the third date is the first 01:00, the fourth is 02:00.
C22_Witness ==
    /\ IsCronCall("0 * * * *", BackwardStart)
    /\ Len(last.dates) = 5
    /\ last.dates[3].t = BackwardTransition - 1
    /\ last.dates[4].t = BackwardTransition + 1

\* -------------------------------------------------------------------- C23

SetMax(S) == CHOOSE x \in S : \A y \in S : x >= y

\* Every RRULE clause of the rule set carries a COUNT.
IsFinite(s) ==
    /\ s.kind = "rrule" /\ s.rrule.rrules # {}
    /\ \A r \in s.rrule.rrules : r.count # Absent

\* The instant of the DTSTART of a rule set on the schedule's local clock.
DtstartInstant(s, b, now) == FromLocal(ArithZone(s, b), DtstartOf(s.rrule, now))

\* An instant after the last occurrence of a finite rule set: BYDAY moves the
\* first occurrence by less than a week, COUNT occurrences follow.
LastPossible(s, b, now) ==
    SetMax({DtstartInstant(s, b, now) + 7 * 24 + r.count * Period(r.freq) :
                r \in s.rrule.rrules} \cup s.rrule.rdates)

\* The occurrences of a finite rule set inside the window of the call.
Remaining(c) ==
    {t \in Max(StartOf(c), Earliest(sched, build))..
              (IF EndOf(c) = Absent THEN LastPossible(sched, build, c.now)
               ELSE Min(EndOf(c), LastPossible(sched, build, c.now))) :
        IsOccurrence(sched, build, t)}

\* The rule set asked for more dates than it has, from start, without end.
IsCountedCall(rs, tz, n, start) ==
    /\ last.called /\ last.n = n /\ last.start = start /\ last.end = NoDate
    /\ sched = RRuleSchedule(rs, tz)

\* C23: a rule set whose rules are finite returns only the occurrences that
\* exist at or after the start, which may be fewer than n: as many dates as
\* occurrences remain in the window, up to the number asked for.  A rule with
\* a COUNT below the number asked for returns exactly COUNT dates; two
\* clauses that generate three distinct dates return the three for a start
\* before DTSTART and an empty list for a start after the last of them.  No
\* date earlier than DTSTART is returned, whatever the start, unless it is an
\* RDATE.
C23_FiniteRulesRunOut ==
    /\ (last.called /\ IsFinite(sched)) =>
          /\ Len(last.dates) = Min(Limit(last.n, EndOf(last)),
                                   Cardinality(Remaining(last)))
          /\ Instants(last.dates) \subseteq Remaining(last)
    /\ (last.called /\ sched.kind = "rrule") =>
          \A i \in 1..Len(last.dates) :
              \/ last.dates[i].t >= DtstartInstant(sched, build, last.now)
              \/ last.dates[i].t \in sched.rrule.rdates
    /\ IsCountedCall(DailyCounted, "UTC", MAX_ITERATIONS + 2, UtcStart) =>
          last.dates = [i \in 1..4 |-> Aware(UtcStart.t + 24 * (i - 1), "UTC")]
    /\ IsCountedCall(TwoCounted, "NY", 5, UtcStart) => Len(last.dates) = 3
    /\ IsCountedCall(TwoCounted, "NY", 5, ForwardStart) => last.dates = <<>>

\* The rule with COUNT = 4 was asked for more than MAX_ITERATIONS dates from
\* its DTSTART and returned four.
C23_Witness ==
    /\ IsCountedCall(DailyCounted, "UTC", MAX_ITERATIONS + 2, UtcStart)
    /\ Len(last.dates) = 4
    /\ Len(last.dates) < Limit(last.n, EndOf(last))

\* -------------------------------------------------------------------- C24

\* n dates one hour apart from the instant t on, tagged with the zone z.
HourlyFrom(t, n, z) == [i \in 1..n |-> Aware(t + (i - 1), z)]

\* The hourly cron without timezone asked for n = 5 dates from a New York start.
IsUtcCronCall(start) ==
    /\ last.called /\ last.n = 5 /\ last.start = start /\ last.end = NoDate
    /\ sched = CronSchedule("0 * * * *", "")

\* IntervalSchedule(interval=timedelta(days=1), anchor_date=<naive midnight>)
\* asked for n = 3 dates from that midnight in UTC.
IsNaiveAnchorCall ==
    /\ last.called /\ last.n = 3 /\ last.start = UtcStart /\ last.end = NoDate
    /\ sched = IntervalSchedule(24, NaiveAnchor, "", last.now)

\* C24: every date returned carries the schedule's own timezone, whatever the
\* timezone of the start.  The hourly cron in New York asked from a UTC start
\* returns dates tagged New York, the hourly cron without timezone asked from
\* a New York start returns dates tagged UTC, and both return the start and
\* the four hours after it.  The dates of a cron schedule depend on the start
\* only through the instant it denotes.  A naive start and a naive anchor are
\* read as UTC.
C24_DatesInScheduleTimezone ==
    /\ last.called =>
          \A i \in 1..Len(last.dates) : last.dates[i].zone = sched.timezone
    /\ IsCronCall("0 * * * *", UtcStart) =>
          last.dates = HourlyFrom(UtcStart.t, 5, "NY")
    /\ IsUtcCronCall(ForwardStart) =>
          last.dates = HourlyFrom(ForwardStart.t, 5, "UTC")
    /\ (last.called /\ sched.kind = "cron" /\ last.start # NoDate) =>
          \A z \in Zones :
              last.dates = GetDates(sched, build, last.now, last.n,
                                    Aware(InstantOf(last.start), z), last.end)
    /\ IsCronCall("0 * * * *", NaiveStart) =>
          last.dates = HourlyFrom(Date2018(1, 1, 6), 5, "NY")
    /\ IsNaiveAnchorCall =>
          last.dates = [i \in 1..3 |-> Aware(UtcStart.t + 24 * (i - 1), "UTC")]

\* The hourly cron in New York was asked from a UTC start and returned dates
\* tagged New York.
C24_Witness ==
    /\ IsCronCall("0 * * * *", UtcStart)
    /\ last.start.zone = "UTC" /\ sched.timezone = "NY"
    /\ Len(last.dates) = 5
    /\ last.dates[1] = Aware(UtcStart.t, "NY")

\* ------------------------------------------------- runs of the migration

\* The variables of the recurrence engine, which a migration leaves alone.
engine == <<build, clock, sched, last, prev, given, error, native, tasks>>

\* The number of rows a table may hold.
MaxRows == 2

DeploymentIds == {"d1", "d2", "d3"}

DeploymentNames == {"etl", "report"}

LimitIds == {"l1", "l2", "l3"}

\* The names of the limits: the limit of a deployment, a limit named with a
\* bare deployment id, and a limit that belongs to no deployment.
LimitNames == {"deployment:" \o d : d \in DeploymentIds} \cup {"d1", "global"}

AtRest(revision) == migration.revision = revision /\ migration.step = "idle"

\* A deployment is created while the database is at down_revision.
InsertDeployment ==
    /\ AtRest(BaseRevision)
    /\ Cardinality(deployment.rows) < MaxRows
    /\ \E id \in DeploymentIds \ {r["id"] : r \in deployment.rows},
          name \in DeploymentNames :
          deployment' = [deployment EXCEPT !.rows = @ \cup {[id |-> id, name |-> name]}]
    /\ migration' = [migration EXCEPT !.before = NoSnapshot]
    /\ UNCHANGED <<engine, concurrency_limit_v2>>

\* A concurrency limit is created while the database is at down_revision.
InsertLimit ==
    /\ AtRest(BaseRevision)
    /\ Cardinality(concurrency_limit_v2) < MaxRows
    /\ \E id \in LimitIds \ {l.id : l \in concurrency_limit_v2}, name \in LimitNames :
          concurrency_limit_v2' = concurrency_limit_v2 \cup {[id |-> id, name |-> name]}
    /\ migration' = [migration EXCEPT !.before = NoSnapshot]
    /\ UNCHANGED <<engine, deployment>>

\* upgrade(): batch_op.add_column(...)
UpgradeAddColumn ==
    /\ AtRest(BaseRevision)
    /\ deployment' = AddColumn(deployment, NewColumn)
    /\ migration' = [migration EXCEPT
                        !.step = "add_column",
                        !.before = [taken |-> TRUE, deployment |-> deployment,
                                    concurrency_limit_v2 |-> concurrency_limit_v2]]
    /\ UNCHANGED <<engine, concurrency_limit_v2>>

\* upgrade(): batch_op.create_foreign_key(...)
UpgradeCreateForeignKey ==
    /\ migration.revision = BaseRevision /\ migration.step = "add_column"
    /\ deployment' = CreateForeignKey(deployment, ForeignKey)
    /\ migration' = [migration EXCEPT !.step = "create_foreign_key"]
    /\ UNCHANGED <<engine, concurrency_limit_v2>>

\* upgrade(): op.execute(sql), the UPDATE that migrates existing data; the
\* database is at revision 4ad4658cbefe afterwards.
UpgradeMigrateData ==
    /\ migration.revision = BaseRevision /\ migration.step = "create_foreign_key"
    /\ \E rows \in SUBSET (UNION {Updated(concurrency_limit_v2, d) : d \in deployment.rows}) :
          /\ Cardinality(rows) = Cardinality(deployment.rows)
          /\ \A d \in deployment.rows :
                \E u \in rows : u \in Updated(concurrency_limit_v2, d)
          /\ deployment' = [deployment EXCEPT !.rows = rows]
    /\ migration' = [migration EXCEPT !.revision = HeadRevision, !.step = "idle"]
    /\ UNCHANGED <<engine, concurrency_limit_v2>>

\* downgrade(): batch_op.drop_constraint(...)
DowngradeDropConstraint ==
    /\ AtRest(HeadRevision)
    /\ deployment' = DropConstraint(deployment, ForeignKey.name)
    /\ migration' = [migration EXCEPT !.step = "drop_constraint"]
    /\ UNCHANGED <<engine, concurrency_limit_v2>>

\* downgrade(): batch_op.drop_column("concurrency_limit_id"); the database is
\* at down_revision afterwards.
DowngradeDropColumn ==
    /\ migration.revision = HeadRevision /\ migration.step = "drop_constraint"
    /\ deployment' = DropColumn(deployment, NewColumn)
    /\ migration' = [migration EXCEPT !.revision = BaseRevision, !.step = "idle"]
    /\ UNCHANGED <<engine, concurrency_limit_v2>>

NextMigration ==
    \/ InsertDeployment
    \/ InsertLimit
    \/ UpgradeAddColumn
    \/ UpgradeCreateForeignKey
    \/ UpgradeMigrateData
    \/ DowngradeDropConstraint
    \/ DowngradeDropColumn

SpecMigration == Init /\ [][NextMigration]_vars

\* -------------------------------------------------------------------- C25

\* The row without the column the upgrade added.
WithoutNewColumn(d) == [k \in (DOMAIN d) \ {NewColumn} |-> d[k]]

\* The limits whose name is 'deployment:' followed by the id of the row.
LimitsOf(d) == {l \in concurrency_limit_v2 : l.name = "deployment:" \o d["id"]}

\* C25: once the upgrade has run, concurrency_limit_id of every deployment row
\* is the id of a limit named 'deployment:' followed by the row's id when
\* there is such a limit, and NULL when there is none; the remaining columns
\* of deployment hold what they held before the upgrade and no row of
\* concurrency_limit_v2 has changed.
C25_UpgradeLinksLimits ==
    AtRest(HeadRevision) =>
        /\ \A d \in deployment.rows :
              IF LimitsOf(d) # {}
              THEN d[NewColumn] \in {l.id : l \in LimitsOf(d)}
              ELSE d[NewColumn] = NULL
        /\ {WithoutNewColumn(d) : d \in deployment.rows} = migration.before.deployment.rows
        /\ Cardinality(deployment.rows) = Cardinality(migration.before.deployment.rows)
        /\ concurrency_limit_v2 = migration.before.concurrency_limit_v2

\* The upgrade ran on a deployment that has a limit and one that has none.
C25_Witness ==
    /\ AtRest(HeadRevision)
    /\ \E d \in deployment.rows : d["id"] = "d1" /\ d[NewColumn] = "l2"
    /\ \E d \in deployment.rows : d["id"] = "d2" /\ d[NewColumn] = NULL
    /\ [id |-> "l2", name |-> "deployment:d1"] \in concurrency_limit_v2

\* -------------------------------------------------------------------- C26

\* The downgrade has run after an upgrade and nothing was inserted since.
Downgraded == AtRest(BaseRevision) /\ migration.before.taken

\* C26: the downgrade removes exactly what the upgrade added.  Once it has
\* run, the deployment table has the columns, constraints and rows it had
\* before the upgrade, and concurrency_limit_v2 is as it was.  The constraint
\* goes first and the column second: between the two steps the column is
\* still there and the constraint is not, and at no time does the table carry
\* a foreign key on a column it does not have.
C26_DowngradeUndoesUpgrade ==
    /\ Downgraded =>
          /\ deployment = migration.before.deployment
          /\ NewColumn \notin deployment.columns
          /\ ForeignKey \notin deployment.constraints
          /\ concurrency_limit_v2 = migration.before.concurrency_limit_v2
    /\ migration.step = "drop_constraint" =>
          /\ NewColumn \in deployment.columns
          /\ ForeignKey \notin deployment.constraints
          /\ concurrency_limit_v2 = migration.before.concurrency_limit_v2
    /\ \A k \in deployment.constraints :
          \A i \in 1..Len(k.local_cols) : k.local_cols[i] \in deployment.columns

\* The downgrade ran after an upgrade that had linked a deployment to its limit.
C26_Witness ==
    /\ Downgraded
    /\ \E d \in deployment.rows : d["id"] = "d1" /\ d["name"] = "etl"
    /\ [id |-> "l1", name |-> "deployment:d1"] \in concurrency_limit_v2
    /\ deployment.columns = {"id", "name"}

====
